---- MODULE Spec2Model ----
(***************************************************************************)
(* State-machine model of the newsie sign-in and profile components.       *)
(*   src/src/Auth.tsx      -- Auth: passwordless sign-in form               *)
(*   src/unnamed/part_000  -- Account: profile load / edit / upsert form    *)
(* The React state of each component (useState cells, react-hook-form       *)
(* values and errors), the requests in flight at the Supabase client and    *)
(* the remote profile table are the variables; every event handler and      *)
(* every continuation after an await is one action.                         *)
(***************************************************************************)
EXTENDS Naturals, Sequences, FiniteSets

\* ------------------------------------------------------------------ bounds
\* Longest e-mail text the user types into the sign-in input.
MaxEmailLen == 6
\* Most sign-in requests the model lets be in flight at once.
MaxAuthInFlight == 2
\* Most Session objects the host hands out in one run.
MaxSessions == 2
\* Most profile-store and sign-out calls the Account component issues in one run.
MaxCalls == 3
\* Last reading of the wall clock (new Date()).
MaxTime == 1

\* --------------------------------------------------------------- variables
VARIABLES
    aLoading,      \* Auth: useState(false), Auth.tsx:39
    showSuccess,   \* Auth: useState(false), Auth.tsx:41
    email,         \* Auth: form value "email" (sequence of characters)
    aSubmitted,    \* Auth: react-hook-form formState.isSubmitted
    emailError,    \* Auth: field error shown by <FormMessage/>
    authInFlight,  \* number of signInWithOtp calls not yet resolved
    toast,         \* last toast raised through useToast()
    last,          \* history: the last event, and the error it carried
    session,       \* the host's Session slot: <<>> or <<[obj, uid]>>
    sessObjs,      \* number of Session objects created so far
    inst,          \* the mounted Account instance, 0 when none is mounted
    budget,        \* number of calls the Account side may issue in this run
    loading,       \* Account: useState(true), part_000:53
    error,         \* Account: useState<string | null>(null), part_000:54
    form,          \* Account: react-hook-form values
    fieldErrors,   \* Account: fields carrying a validation error
    pSubmitted,    \* Account: react-hook-form formState.isSubmitted
    pending,       \* profile-store and sign-out calls in flight
    nextId,        \* number of calls issued so far
    store,         \* the remote profiles table: a set of rows keyed by id
    now,           \* the wall clock
    loadState,     \* history: FlowState of the latest profile load
    submitState    \* history: FlowState of the latest profile submit

authVars == <<aLoading, showSuccess, email, aSubmitted, emailError, authInFlight>>
hostVars == <<session, sessObjs, inst, budget>>
accountVars == <<loading, error, form, fieldErrors, pSubmitted>>
remoteVars == <<pending, nextId, store, now>>
flowVars == <<loadState, submitState>>

vars == <<authVars, toast, last, hostVars, accountVars, remoteVars, flowVars>>

None == <<>>
Some(x) == <<x>>
Event(op) == [op |-> op, err |-> None, repeat |-> FALSE]
Failure(op, err) == [op |-> op, err |-> Some(err), repeat |-> FALSE]

\* ------------------------------------------------------------- error values
\* What a collaborator call can fail with: an Error instance (AuthError is a
\* subclass of Error) or a plain object such as the JSON error body that the
\* PostgREST client hands back; either may carry an empty message.
ErrorKinds == {"Error", "object"}
Messages == {"", "boom"}
ErrorValues == [kind : ErrorKinds, message : Messages]
GenericMessage == "An error occurred"

\* error instanceof Error ? error.message : "An error occurred"
ErrorText(err) ==
    IF err.kind = "Error" THEN err.message ELSE GenericMessage

NoToast == [variant |-> "none", title |-> "", description |-> ""]
LinkSentToast ==
    [variant |-> "default", title |-> "Magic link sent!",
     description |-> "Check your email for the login link."]
ErrorToast(err) ==
    [variant |-> "destructive", title |-> "Error", description |-> ErrorText(err)]

\* ------------------------------------------------------ e-mail validation
Chars == {"a", "@", ".", " "}

AtPositions(s) == {i \in 1..Len(s) : s[i] = "@"}
DotPositions(s) == {i \in 1..Len(s) : s[i] = "."}
HasDoubleDot(s) == \E i \in 1..(Len(s) - 1) : s[i] = "." /\ s[i + 1] = "."

\* The local part: [A-Z0-9_'+\-\.]*[A-Z0-9_+-], not starting with a dot.
LocalPartOk(l) ==
    /\ Len(l) >= 1
    /\ \A i \in 1..Len(l) : l[i] \in {"a", "."}
    /\ l[1] # "."
    /\ l[Len(l)] = "a"

\* The domain: ([A-Z0-9][A-Z0-9\-]*\.)+[A-Z]{2,}
DomainOk(d) ==
    /\ Len(d) >= 1
    /\ \A i \in 1..Len(d) : d[i] \in {"a", "."}
    /\ d[1] # "."
    /\ DotPositions(d) # {}
    /\ \A i \in DotPositions(d) : i + 1 <= Len(d) /\ d[i + 1] # "."
    /\ \A i \in DotPositions(d) :
          (\A j \in DotPositions(d) : j <= i) => Len(d) - i >= 2

\* z.string().email(): zod's e-mail pattern over the model's alphabet.
ZodEmail(s) ==
    /\ Cardinality(AtPositions(s)) = 1
    /\ ~HasDoubleDot(s)
    /\ LET p == CHOOSE i \in AtPositions(s) : TRUE
       IN  /\ LocalPartOk(SubSeq(s, 1, p - 1))
           /\ DomainOk(SubSeq(s, p + 1, Len(s)))

\* A schema that lets every text through.
AcceptAnyEmail(s) == TRUE

\* zodResolver(formSchema) of Auth: the values pass iff the e-mail parses.
AuthResolver(s) == ZodEmail(s)

\* ------------------------------------------------------------------- Auth
\* The user types one character into the (never disabled) e-mail input.
\* After a submit attempt react-hook-form re-validates on every change.
AuthType(c) ==
    /\ Len(email) < MaxEmailLen
    /\ email' = Append(email, c)
    /\ emailError' = (aSubmitted /\ ~AuthResolver(email'))
    /\ last' = Event("authType")
    /\ UNCHANGED <<aLoading, showSuccess, aSubmitted, authInFlight, toast>>
    /\ UNCHANGED <<hostVars, accountVars, remoteVars, flowVars>>

\* The user deletes the last character.
AuthErase ==
    /\ Len(email) > 0
    /\ email' = SubSeq(email, 1, Len(email) - 1)
    /\ emailError' = (aSubmitted /\ ~AuthResolver(email'))
    /\ last' = Event("authErase")
    /\ UNCHANGED <<aLoading, showSuccess, aSubmitted, authInFlight, toast>>
    /\ UNCHANGED <<hostVars, accountVars, remoteVars, flowVars>>

\* A submit button without the disabled attribute.
AlwaysEnabled(flag) == FALSE

\* <Button type="submit" disabled={loading}>: the render that follows
\* setLoading is taken as part of the step that sets it.
AuthButtonDisabled(flag) == flag

\* A submit gesture (click on the button, or Enter in the input) while the
\* submit button is disabled: the browser raises no submit event.
AuthSubmitWhileDisabled ==
    /\ AuthButtonDisabled(aLoading)
    /\ last' = Event("authSubmitIgnored")
    /\ UNCHANGED <<aLoading, showSuccess, email, aSubmitted, emailError,
                   authInFlight, toast>>
    /\ UNCHANGED <<hostVars, accountVars, remoteVars, flowVars>>

\* form.handleSubmit(onSubmit) with values the resolver rejects: the field
\* error is set and onSubmit is not called.
AuthSubmitInvalid ==
    /\ ~AuthButtonDisabled(aLoading)
    /\ ~AuthResolver(email)
    /\ aSubmitted' = TRUE
    /\ emailError' = TRUE
    /\ last' = Event("authSubmitRejected")
    /\ UNCHANGED <<aLoading, showSuccess, email, authInFlight, toast>>
    /\ UNCHANGED <<hostVars, accountVars, remoteVars, flowVars>>

\* onSubmit without its setShowSuccess(false).
KeepNotice(flag) == flag

\* setShowSuccess(false) at the start of onSubmit.
NoticeOnSubmit(flag) == FALSE

\* form.handleSubmit(onSubmit) with valid values: onSubmit runs up to its
\* await of supabase.auth.signInWithOtp.
AuthSubmitValid ==
    /\ ~AuthButtonDisabled(aLoading)
    /\ AuthResolver(email)
    /\ authInFlight < MaxAuthInFlight
    /\ aSubmitted' = TRUE
    /\ emailError' = FALSE
    /\ aLoading' = TRUE
    /\ showSuccess' = NoticeOnSubmit(showSuccess)
    /\ authInFlight' = authInFlight + 1
    /\ last' = Event("authSubmitAccepted")
    /\ UNCHANGED <<email, toast>>
    /\ UNCHANGED <<hostVars, accountVars, remoteVars, flowVars>>

\* signInWithOtp resolved without error: the rest of the try block, finally.
AuthResolveOk ==
    /\ authInFlight > 0
    /\ authInFlight' = authInFlight - 1
    /\ showSuccess' = TRUE
    /\ email' = <<>>
    /\ aSubmitted' = FALSE
    /\ emailError' = FALSE
    /\ toast' = LinkSentToast
    /\ aLoading' = FALSE
    /\ last' = Event("authResolveOk")
    /\ UNCHANGED <<hostVars, accountVars, remoteVars, flowVars>>

\* A catch block that also calls form.reset().
ResetEmail(e) == <<>>

\* The catch block of onSubmit raises a toast and leaves the form alone.
EmailAfterFailure(e) == e

\* signInWithOtp returned an error (or threw): catch, finally.
AuthResolveErr(err) ==
    /\ authInFlight > 0
    /\ authInFlight' = authInFlight - 1
    /\ toast' = ErrorToast(err)
    /\ aLoading' = FALSE
    /\ email' = EmailAfterFailure(email)
    /\ last' = Failure("authResolveErr", err)
    /\ UNCHANGED <<showSuccess, aSubmitted, emailError>>
    /\ UNCHANGED <<hostVars, accountVars, remoteVars, flowVars>>

\* ------------------------------------------------------ profile validation
Users == {"u1", "u2"}
SqlNull == "NULL"
GoodUrl == "https://a.co"
UsernameInputs == {"", "a", "ab"}
WebsiteInputs == {"", GoodUrl, "not-a-url"}
Fields == {"username", "website", "avatar_url"}
\* Only username and website have a <FormField> with a <FormMessage/>.
RenderedFields == {"username", "website"}

\* z.string().url(): the text parses as an absolute URL.
ZodUrl(s) == s \in {GoodUrl}

\* z.string().min(1)
UsernameMin1(s) == Len(s) >= 1

\* z.string().min(2)
UsernameOk(s) == Len(s) >= 2
\* z.string().url().optional().or(z.literal(""))
UrlOrEmpty(s) == ZodUrl(s) \/ s = ""

\* The fields of `values` that formSchema rejects.
Violations(values) ==
    {f \in Fields :
        \/ f = "username" /\ ~UsernameOk(values.username)
        \/ f = "website" /\ ~UrlOrEmpty(values.website)
        \/ f = "avatar_url" /\ ~UrlOrEmpty(values.avatar_url)}

\* zodResolver(formSchema) of Account.
AccountResolver(values) == Violations(values)

DefaultValues == [username |-> "", website |-> "", avatar_url |-> ""]

\* ------------------------------------------------------------ remote store
Row(u, w, a, t) == [username |-> u, website |-> w, avatar_url |-> a, updated_at |-> t]
NoRow == Row("", "", "", 0)

\* { ...a, ...b }: the keys of both, b's value where both have the key.
Spread(a, b) ==
    [k \in DOMAIN a \cup DOMAIN b |-> IF k \in DOMAIN b THEN b[k] ELSE a[k]]

\* The row of user uid with the columns of `row`.
Keyed(uid, row) == Spread([id |-> uid], row)

\* Tables the run may start from: nobody has a profile; u1 has a complete
\* one; u1 has a row written by another client (null columns, a storage path
\* as avatar) and u2 a complete one.
InitialStores ==
    { {},
      {Keyed("u1", Row("ab", GoodUrl, GoodUrl, 0))},
      {Keyed("u1", Row(SqlNull, SqlNull, "avatars/1.png", 0)),
       Keyed("u2", Row("ab", "", "", 0))} }

\* .eq('id', uid)
RowsFor(uid) == {r \in store : r.id = uid}

NoRowsError ==
    [kind |-> "object",
     message |-> "JSON object requested, multiple (or no) rows returned"]

Result(err, data) == [error |-> err, data |-> data]

\* .select(...).eq('id', uid).single(): exactly one row, or an error.
Single(rows) ==
    IF Cardinality(rows) = 1
    THEN Result(None, Some(CHOOSE r \in rows : TRUE))
    ELSE Result(Some(NoRowsError), None)

\* .insert(updates): the row is added whatever the table holds.
Insert(table, rec) == table \cup {rec}

\* .upsert(updates): the row replaces the one with the same primary key.
Upsert(table, rec) == {r \in table : r.id # rec.id} \cup {rec}

Call(kind, uid, rec) ==
    [id |-> nextId + 1, kind |-> kind, inst |-> inst, uid |-> uid, rec |-> rec,
     cause |-> "user"]

CallsOf(kind) == {c \in pending : c.kind = kind}

\* A handler that issues its call again when the call has resolved.
Reissued(c) == pending

\* The awaited call c has resolved: it is no longer in flight, and neither
\* getProfile, onSubmit nor handleSignOut issues another call after its await.
Settled(c) == pending \ {c}

\* The component that issued call c is still the mounted one.
Live(c) == c.inst # 0 /\ c.inst = inst

\* ---------------------------------------------------------- toasts, flags
ProfileUpdatedToast ==
    [variant |-> "default", title |-> "Profile updated",
     description |-> "Your profile has been successfully updated."]
SignedOutToast ==
    [variant |-> "default", title |-> "Signed out",
     description |-> "You have been successfully signed out."]

\* {error && <Alert>...}: the alert shows a non-null, non-empty message.
ErrorShown == inst # 0 /\ error # None /\ error # Some("")

\* {loading ? <Skeleton/> : <Form>}: the form, its submit and sign-out buttons.
FormRendered == inst # 0 /\ ~loading

\* data.username || ""
OrEmpty(v) == IF v = SqlNull \/ v = "" THEN "" ELSE v

\* ------------------------------------------------------------------- host
\* The host renders Auth while the slot is empty and Account otherwise.
ActiveFlow == IF session = None THEN "SignInFlow" ELSE "ProfileSyncFlow"

\* History: what made the effect run for a Session of user uid: the mount
\* of the component, a new Session object of the same user, or of another.
LoadCause(uid) ==
    IF session = None THEN "mount"
    ELSE IF session[1].uid = uid THEN "sameUser" ELSE "otherUser"

\* useEffect(() => { getProfile() }, [session, form]) up to the await:
\* setLoading(true), setError(null), the select for the session's user.
GetProfileStart(uid, i) ==
    /\ loading' = TRUE
    /\ error' = None
    /\ pending' = pending \cup
          {[id |-> nextId + 1, kind |-> "read", inst |-> i, uid |-> uid, rec |-> NoRow,
            cause |-> LoadCause(uid)]}
    /\ nextId' = nextId + 1
    /\ loadState' = "Pending"

\* The state a fresh Account instance starts from: useForm's defaultValues,
\* no field errors, nothing submitted (loading and error are set again by
\* the effect that runs on mount).
AccountMount ==
    /\ form' = DefaultValues
    /\ fieldErrors' = {}
    /\ pSubmitted' = FALSE
    /\ submitState' = "Idle"

\* A magic link was followed: the slot gets a Session, Account mounts with
\* its initial state and its effect starts the load.
SessionArrives(u) ==
    /\ session = None
    /\ sessObjs < MaxSessions
    /\ nextId < budget
    /\ sessObjs' = sessObjs + 1
    /\ session' = Some([obj |-> sessObjs + 1, uid |-> u])
    /\ inst' = sessObjs + 1
    /\ AccountMount
    /\ GetProfileStart(u, sessObjs + 1)
    /\ last' = Event("sessionArrives")
    /\ UNCHANGED <<authVars, toast, store, now, budget>>

\* The slot's Session is replaced by a new object (a refreshed token for the
\* same user, or another user): the mounted Account gets a new prop and its
\* effect runs again.
SessionReplaced(u) ==
    /\ session # None
    /\ sessObjs < MaxSessions
    /\ nextId < budget
    /\ sessObjs' = sessObjs + 1
    /\ session' = Some([obj |-> sessObjs + 1, uid |-> u])
    /\ GetProfileStart(u, inst)
    /\ last' = Event("sessionReplaced")
    /\ UNCHANGED <<authVars, toast, inst, form, fieldErrors, pSubmitted, store, now,
                   submitState, budget>>

\* ---------------------------------------------------------------- Account
\* setLoading(false) at the end of the try block instead of in finally.
LoadingUnlessFailed(failed) == failed

\* finally { setLoading(false) } of getProfile, whether or not it failed.
LoadingAfterLoad(failed) == FALSE

\* getProfile after the await, for a response `res` to call c.
GetProfileDone(c, res) ==
    IF Live(c)
    THEN /\ loading' = LoadingAfterLoad(res.error # None)
         /\ IF res.error # None
            THEN /\ error' = Some(ErrorText(res.error[1]))
                 /\ loadState' = "Failed"
                 /\ UNCHANGED <<form, fieldErrors, pSubmitted>>
            ELSE /\ loadState' = "Succeeded"
                 /\ UNCHANGED error
                 /\ IF res.data # None
                    THEN /\ form' = [username |-> OrEmpty(res.data[1].username),
                                     website |-> OrEmpty(res.data[1].website),
                                     avatar_url |-> OrEmpty(res.data[1].avatar_url)]
                         /\ fieldErrors' = {}
                         /\ pSubmitted' = FALSE
                    ELSE UNCHANGED <<form, fieldErrors, pSubmitted>>
    ELSE UNCHANGED <<accountVars, loadState>>

\* The store answers the select of call c.
ReadRespond(c) ==
    /\ c \in CallsOf("read")
    /\ pending' = Settled(c)
    /\ GetProfileDone(c, Single(RowsFor(c.uid)))
    /\ last' = IF ~Live(c) THEN Event("staleRead")
               ELSE IF RowsFor(c.uid) = {} THEN Failure("readNoRow", NoRowsError)
               ELSE IF Cardinality(RowsFor(c.uid)) > 1
                    THEN Failure("readManyRows", NoRowsError)
               ELSE Event("readRow")
    /\ UNCHANGED <<authVars, toast, hostVars, nextId, store, now, submitState>>

\* The select of call c fails (network, permission, server error).
ReadFail(c, err) ==
    /\ c \in CallsOf("read")
    /\ pending' = Settled(c)
    /\ GetProfileDone(c, Result(Some(err), None))
    /\ last' = IF Live(c) THEN Failure("readFail", err) ELSE Event("staleRead")
    /\ UNCHANGED <<authVars, toast, hostVars, nextId, store, now, submitState>>

\* The user edits the username input.
SetUsername(v) ==
    /\ FormRendered
    /\ v # form.username
    /\ form' = [form EXCEPT !.username = v]
    /\ fieldErrors' =
          IF pSubmitted
          THEN (fieldErrors \ {"username"}) \cup (AccountResolver(form') \cap {"username"})
          ELSE fieldErrors
    /\ last' = Event("edit")
    /\ UNCHANGED <<authVars, toast, hostVars, loading, error, pSubmitted, remoteVars,
                   flowVars>>

\* The user edits the website input.
SetWebsite(v) ==
    /\ FormRendered
    /\ v # form.website
    /\ form' = [form EXCEPT !.website = v]
    /\ fieldErrors' =
          IF pSubmitted
          THEN (fieldErrors \ {"website"}) \cup (AccountResolver(form') \cap {"website"})
          ELSE fieldErrors
    /\ last' = Event("edit")
    /\ UNCHANGED <<authVars, toast, hostVars, loading, error, pSubmitted, remoteVars,
                   flowVars>>

\* form.handleSubmit(onSubmit) with values the resolver rejects.
AccountSubmitInvalid ==
    /\ FormRendered
    /\ AccountResolver(form) # {}
    /\ fieldErrors' = AccountResolver(form)
    /\ pSubmitted' = TRUE
    /\ last' = Event("submitRejected")
    /\ UNCHANGED <<authVars, toast, hostVars, loading, error, form, remoteVars, flowVars>>

\* An update record keyed by one fixed user rather than the session's.
UpdatesFixedKey(values) ==
    Spread(Spread([id |-> "u1"], values), [updated_at |-> now])

\* const updates = { id: session.user.id, ...values, updated_at: new Date() }
Updates(values) ==
    Spread(Spread([id |-> session[1].uid], values), [updated_at |-> now])

\* The editable columns of two rows agree.
SameFields(a, b) == \A f \in Fields : a[f] = b[f]

\* form.handleSubmit(onSubmit) with valid values: onSubmit up to the await
\* of supabase.from('profiles').upsert(updates).
AccountSubmitValid ==
    /\ FormRendered
    /\ AccountResolver(form) = {}
    /\ nextId < budget
    /\ fieldErrors' = {}
    /\ pSubmitted' = TRUE
    /\ loading' = TRUE
    /\ error' = None
    /\ pending' = pending \cup {Call("upsert", session[1].uid, Updates(form))}
    /\ nextId' = nextId + 1
    /\ submitState' = "Pending"
    /\ last' = Event("submitAccepted")
    /\ UNCHANGED <<authVars, toast, hostVars, form, store, now, loadState>>

\* An onSubmit that calls form.reset() once the upsert has resolved.
ResetAfterSubmit(values) == DefaultValues

\* onSubmit never writes the form: neither branch calls form.reset().
FormAfterSubmit(values) == values

\* onSubmit after the await, the upsert having succeeded.
UpsertOk(c) ==
    /\ c \in CallsOf("upsert")
    /\ pending' = Settled(c)
    /\ store' = Upsert(store, c.rec)
    /\ toast' = ProfileUpdatedToast
    /\ IF Live(c)
       THEN /\ loading' = FALSE
            /\ submitState' = "Succeeded"
       ELSE UNCHANGED <<loading, submitState>>
    /\ form' = FormAfterSubmit(form)
    /\ last' = [Event(IF Live(c) THEN "upsertOk" ELSE "staleUpsertOk")
                  EXCEPT !.repeat = \E r \in store : r.id = c.rec.id /\ SameFields(r, c.rec)]
    /\ UNCHANGED <<authVars, hostVars, error, fieldErrors, pSubmitted, nextId, now,
                   loadState>>

\* onSubmit after the await, the upsert having failed.
UpsertFail(c, err) ==
    /\ c \in CallsOf("upsert")
    /\ pending' = Settled(c)
    /\ IF Live(c)
       THEN /\ error' = Some(ErrorText(err))
            /\ loading' = FALSE
            /\ submitState' = "Failed"
       ELSE UNCHANGED <<error, loading, submitState>>
    /\ form' = FormAfterSubmit(form)
    /\ last' = IF Live(c) THEN Failure("upsertFail", err) ELSE Event("staleUpsertFail")
    /\ UNCHANGED <<authVars, toast, hostVars, fieldErrors, pSubmitted, nextId,
                   store, now, loadState>>

\* A handleSignOut that only raises its toast.
NoCalls(uid) == {}

\* await supabase.auth.signOut()
SignOutCalls(uid) == {Call("signOut", uid, NoRow)}

\* handleSignOut up to its await.
SignOutClick ==
    /\ FormRendered
    /\ nextId < budget
    /\ pending' = pending \cup SignOutCalls(session[1].uid)
    /\ nextId' = nextId + 1
    /\ last' = Event("signOutClick")
    /\ UNCHANGED <<authVars, toast, hostVars, accountVars, store, now, flowVars>>

\* The host empties the Session slot when the identity collaborator reports
\* the sign-out: Account unmounts (its state is gone) and Auth is shown.
SessionCleared ==
    /\ session' = None
    /\ inst' = 0
    /\ loading' = TRUE
    /\ error' = None
    /\ form' = DefaultValues
    /\ fieldErrors' = {}
    /\ pSubmitted' = FALSE
    /\ loadState' = "Idle"
    /\ submitState' = "Idle"

\* supabase.auth.signOut() resolves, the session having ended; handleSignOut
\* then raises its toast.
SignOutDone(c) ==
    /\ c \in CallsOf("signOut")
    /\ pending' = Settled(c)
    /\ SessionCleared
    /\ toast' = SignedOutToast
    /\ last' = Event("signOutDone")
    /\ UNCHANGED <<authVars, sessObjs, nextId, store, now, budget>>

\* Time passes.
Tick ==
    /\ now < MaxTime
    /\ now' = now + 1
    /\ last' = Event("tick")
    /\ UNCHANGED <<authVars, toast, hostVars, accountVars, pending, nextId, store,
                   flowVars>>

\* ------------------------------------------------------------ specification
InitAuthVars ==
    /\ aLoading = FALSE
    /\ showSuccess = FALSE
    /\ email = <<>>
    /\ aSubmitted = FALSE
    /\ emailError = FALSE
    /\ authInFlight = 0

InitRest ==
    /\ toast = NoToast
    /\ last = Event("init")
    /\ session = None
    /\ sessObjs = 0
    /\ inst = 0
    /\ loading = TRUE
    /\ error = None
    /\ form = DefaultValues
    /\ fieldErrors = {}
    /\ pSubmitted = FALSE
    /\ pending = {}
    /\ nextId = 0
    /\ now = 0
    /\ loadState = "Idle"
    /\ submitState = "Idle"

\* The sign-in form alone: no session arrives.
InitAuth ==
    /\ InitAuthVars
    /\ InitRest
    /\ budget = MaxCalls
    /\ store = {}

NextAuth ==
    \/ \E c \in Chars : AuthType(c)
    \/ AuthErase
    \/ AuthSubmitWhileDisabled
    \/ AuthSubmitInvalid
    \/ AuthSubmitValid
    \/ AuthResolveOk
    \/ \E err \in ErrorValues : AuthResolveErr(err)

SpecAuth == InitAuth /\ [][NextAuth]_vars

\* The host and the profile form: sessions come and go, the sign-in form is
\* left untouched while it is shown.
Init ==
    /\ InitAuthVars
    /\ InitRest
    /\ budget = MaxCalls
    /\ store \in InitialStores

Next ==
    \/ \E u \in Users : SessionArrives(u)
    \/ \E u \in Users : SessionReplaced(u)
    \/ \E c \in pending : ReadRespond(c)
    \/ \E c \in pending, err \in ErrorValues : ReadFail(c, err)
    \/ \E v \in UsernameInputs : SetUsername(v)
    \/ \E v \in WebsiteInputs : SetWebsite(v)
    \/ AccountSubmitInvalid
    \/ AccountSubmitValid
    \/ \E c \in pending : UpsertOk(c)
    \/ \E c \in pending, err \in ErrorValues : UpsertFail(c, err)
    \/ SignOutClick
    \/ \E c \in pending : SignOutDone(c)
    \/ Tick

Spec == Init /\ [][Next]_vars

\* Overlapping calls of one Account instance: one more call than in Spec,
\* from a table in which both users have a complete profile, without
\* failing selects, website edits or clock ticks.
InitRace ==
    /\ InitAuthVars
    /\ InitRest
    /\ budget = MaxCalls + 1
    /\ store = {Keyed("u1", Row("ab", GoodUrl, GoodUrl, 0)), Keyed("u2", Row("ab", "", "", 0))}

NextRace ==
    \/ \E u \in Users : SessionArrives(u)
    \/ \E u \in Users : SessionReplaced(u)
    \/ \E c \in pending : ReadRespond(c)
    \/ \E v \in UsernameInputs : SetUsername(v)
    \/ AccountSubmitInvalid
    \/ AccountSubmitValid
    \/ \E c \in pending : UpsertOk(c)
    \/ \E c \in pending, err \in ErrorValues : UpsertFail(c, err)
    \/ SignOutClick
    \/ \E c \in pending : SignOutDone(c)

SpecRace == InitRace /\ [][NextRace]_vars

\* ------------------------------------------------------------------ claims
\* The spec's e-mail grammar: local-part "@" domain, the domain containing a
\* dot, no embedded whitespace.
SpecEmailSyntax(s) ==
    /\ \A i \in 1..Len(s) : s[i] # " "
    /\ \E p \in AtPositions(s) :
          /\ p > 1
          /\ p < Len(s)
          /\ \E q \in DotPositions(s) : q > p

InvalidEmail(s) == ~SpecEmailSyntax(s) \/ ~ZodEmail(s)

AuthSubmitOps == {"authSubmitRejected", "authSubmitAccepted"}

\* C1: a sign-in submit whose e-mail is syntactically invalid issues no
\* signInWithOtp call, leaves loading false and leaves showSuccess and the
\* toast as they were.
C1_InvalidEmailNeverSent ==
    [][ (InvalidEmail(email) /\ last'.op \in AuthSubmitOps)
          => /\ last'.op = "authSubmitRejected"
             /\ authInFlight' = authInFlight
             /\ aLoading = FALSE
             /\ aLoading' = FALSE
             /\ showSuccess' = showSuccess
             /\ toast' = toast ]_vars

\* C1 witness: an invalid, non-empty e-mail was just rejected while the
\* link-sent notice of an earlier success is showing.
C1_Witness ==
    /\ last.op = "authSubmitRejected"
    /\ email # <<>>
    /\ InvalidEmail(email)
    /\ showSuccess
    /\ authInFlight = 0

C3_NoReentrantSubmit ==
    /\ [](authInFlight <= 1 /\ (aLoading <=> authInFlight = 1))
    /\ [][ (aLoading /\ last'.op \in AuthSubmitOps \cup {"authSubmitIgnored"})
             => /\ last'.op = "authSubmitIgnored"
                /\ UNCHANGED <<authVars, toast>> ]_vars

\* C3 witness: a submit gesture with a valid e-mail was just ignored while a
\* request is in flight.
C3_Witness ==
    /\ last.op = "authSubmitIgnored"
    /\ authInFlight = 1
    /\ aLoading
    /\ ZodEmail(email)

\* C8: when signInWithOtp fails the flow ends with a destructive toast,
\* showSuccess false, loading false and the e-mail input as it was; the
\* input goes from text to empty only by a success or by the user's erasing.
C8_FailureKeepsInput ==
    [][ /\ (last'.op = "authResolveErr")
            => /\ email' = email
               /\ ~showSuccess'
               /\ ~aLoading'
               /\ toast'.variant = "destructive"
        /\ (last'.op = "authResolveOk") => email' = <<>>
        /\ (email # <<>> /\ email' = <<>>)
            => last'.op \in {"authResolveOk", "authErase"} ]_vars

\* C8 witness: a request has just failed and the submitted text is still in
\* the input.
C8_Witness ==
    /\ last.op = "authResolveErr"
    /\ email # <<>>
    /\ ~showSuccess
    /\ ~aLoading

\* The spec's precondition of ProfileSyncFlow.submit.
SpecFieldsValid(f) ==
    /\ Len(f.username) >= 2
    /\ f.website = "" \/ ZodUrl(f.website)
    /\ f.avatar_url = "" \/ ZodUrl(f.avatar_url)

ProfileSubmitOps == {"submitRejected", "submitAccepted"}
LoadFailureOps == {"readFail", "readNoRow"}

\* C4: a load for a user without a stored row ends Succeeded with empty
\* fields and no failure message.
C4_NoRecordLoadSucceeds ==
    (last.op = "readNoRow")
        => /\ loadState = "Succeeded"
           /\ error = None
           /\ form = DefaultValues

\* C5: a profile submit whose fields violate the validation rules issues no
\* upsert and does not set loading; a submit whose fields satisfy them
\* (username of length >= 2, website and avatar empty or a URL) issues one
\* upsert carrying those fields for the session's user.
C5_ValidationGatesUpsert ==
    [][ (last'.op \in ProfileSubmitOps)
          => IF SpecFieldsValid(form)
             THEN /\ last'.op = "submitAccepted"
                  /\ loading'
                  /\ submitState' = "Pending"
                  /\ \E c \in pending' \ pending :
                        /\ pending' = pending \cup {c}
                        /\ c.kind = "upsert"
                        /\ c.uid = session[1].uid
                        /\ c.rec.username = form.username
                        /\ c.rec.website = form.website
                        /\ c.rec.avatar_url = form.avatar_url
             ELSE /\ last'.op = "submitRejected"
                  /\ pending' = pending
                  /\ ~loading'
                  /\ submitState' = submitState
                  /\ fieldErrors' # {} ]_vars

\* C5 witness: a submit with a one-character username was just rejected
\* with nothing in flight.
C5_Witness ==
    /\ last.op = "submitRejected"
    /\ Len(form.username) = 1
    /\ form.website = GoodUrl
    /\ "username" \in fieldErrors
    /\ pending = {}

C7_SubmitLeavesFields ==
    [][ /\ (last'.op \in ProfileSubmitOps \cup
                {"upsertOk", "upsertFail", "staleUpsertOk", "staleUpsertFail"})
            => form' = form
        /\ (last'.op = "upsertFail")
            => /\ error' = Some(ErrorText(last'.err[1]))
               /\ submitState' = "Failed"
        /\ (last'.op \in {"upsertOk", "staleUpsertOk"})
            => /\ CallsOf("read")' = CallsOf("read")
               /\ nextId' = nextId ]_vars

\* C7 witness: an upsert has just failed and the submitted fields are still
\* in the form.
C7_Witness ==
    /\ last.op = "upsertFail"
    /\ form.username = "ab"
    /\ form.website = GoodUrl
    /\ error # None

\* C9: handleSignOut issues a signOut call; when it completes the Session
\* slot is empty; while the slot is empty SignInFlow is the active flow, no
\* Account instance is mounted and no profile operation can be taken.
C9_SignOutEndsProfileFlow ==
    /\ (last.op = "signOutClick") => CallsOf("signOut") # {}
    /\ (last.op = "signOutDone") => (session = None /\ toast = SignedOutToast)
    /\ (session = None)
          => /\ ActiveFlow = "SignInFlow"
             /\ inst = 0
             /\ ~FormRendered
             /\ ~ErrorShown
             /\ form = DefaultValues
             /\ loadState = "Idle"
             /\ submitState = "Idle"
             /\ ~ENABLED (AccountSubmitValid \/ AccountSubmitInvalid \/ SignOutClick)
    /\ (session # None) => (ActiveFlow = "ProfileSyncFlow" /\ inst # 0)

\* C9 witness: a sign-out has just completed for a session that had loaded.
C9_Witness ==
    /\ last.op = "signOutDone"
    /\ session = None
    /\ sessObjs >= 1
    /\ inst = 0

\* C10: every failure of a load or a submit leaves a non-empty message: the
\* failure's own message when it has one, the generic text otherwise.
C10_FailureMessageNonEmpty ==
    (last.op \in LoadFailureOps \cup {"upsertFail"})
        => /\ error # None
           /\ error # Some("")
           /\ error = Some(IF last.err[1].message # ""
                           THEN last.err[1].message
                           ELSE GenericMessage)

\* C11 as stated: the table never holds two rows of one user, and an upsert
\* whose fields equal those of the user's stored row (the same fields
\* submitted again) leaves the table exactly as it was.
C11_RepeatedSubmitSameState ==
    /\ [](\A u \in Users : Cardinality(RowsFor(u)) <= 1)
    /\ [][ (last'.op \in {"upsertOk", "staleUpsertOk"} /\ last'.repeat)
              => store' = store ]_vars

\* C11 amended: the table never holds two rows of one user, and an upsert
\* whose fields equal those of the user's stored row replaces that row by
\* one that differs from it at most in updated_at, which becomes the time of
\* the later submit; every other row is left alone.
C11_RepeatedSubmitSameFields ==
    /\ [](\A u \in Users : Cardinality(RowsFor(u)) <= 1)
    /\ [][ (last'.op \in {"upsertOk", "staleUpsertOk"})
              => /\ \A u \in Users : Cardinality(RowsFor(u)') <= 1
                 /\ \E c \in CallsOf("upsert") \ pending' :
                       /\ c.rec \in store'
                       /\ \A r \in store' : r.id # c.rec.id => r \in store
                       /\ \A r \in store : r.id # c.rec.id => r \in store'
                       /\ last'.repeat
                            => /\ Cardinality(store') = Cardinality(store)
                               /\ \E r \in store :
                                     /\ r.id = c.rec.id
                                     /\ SameFields(r, c.rec)
                                     /\ store' = (store \ {r}) \cup
                                          {[r EXCEPT !.updated_at = c.rec.updated_at]} ]_vars

\* C11 witness: the same fields were upserted again at a later time, and the
\* user's single row now carries the later time.
C11_Witness ==
    /\ last.op = "upsertOk"
    /\ last.repeat
    /\ now = 1
    /\ \E r \in store : r.id = session[1].uid /\ r.updated_at = 1
    /\ Cardinality(RowsFor(session[1].uid)) = 1

\* C12: a Session that first becomes available starts exactly one select; a
\* new Session object starts another one only when its userId differs, and
\* one of the same userId starts none, leaves the form and loading alone,
\* and no response to a load it caused rewrites the fields.
C12_LoadOnlyOnUserChange ==
    [][ /\ (last'.op = "sessionArrives")
            => \E c \in pending' \ pending :
                  /\ pending' = pending \cup {c}
                  /\ c.kind = "read"
                  /\ c.uid = session'[1].uid
        /\ (last'.op = "sessionReplaced")
            => IF session'[1].uid = session[1].uid
               THEN /\ pending' = pending
                    /\ form' = form
                    /\ loading' = loading
               ELSE \E c \in pending' \ pending :
                       /\ pending' = pending \cup {c}
                       /\ c.kind = "read"
                       /\ c.uid = session'[1].uid
        /\ (last'.op = "readRow" /\ form' # form)
            => \E c \in pending \ pending' : c.cause # "sameUser" ]_vars

\* The upsert calls of the mounted Account instance that are in flight.
LiveUpserts == {c \in CallsOf("upsert") : Live(c)}

\* C13: at most one upsert of the flow is in flight at any time, and a
\* submit made while one is in flight issues nothing.
C13_OneUpsertInFlight ==
    /\ [](Cardinality(LiveUpserts) <= 1)
    /\ [][ (LiveUpserts # {} /\ last'.op \in ProfileSubmitOps)
              => pending' = pending ]_vars

\* C14: when the user has signed out while a profile submit was unresolved,
\* the later resolution of that submit changes nothing the user can see:
\* neither the loading flag, nor the error message, nor the notification.
C14_StaleSubmitInvisible ==
    [][ last'.op \in {"staleUpsertOk", "staleUpsertFail"}
           => /\ loading' = loading
              /\ error' = error
              /\ toast' = toast ]_vars

\* The calls issued by a step.
Issued == pending' \ pending

\* C15: every select and every upsert is keyed by the user of the Session
\* that is current when the call is issued, the record of an upsert carries
\* that user's id and the submitted field values, and a resolved upsert
\* writes no row of another user.
C15_CallsKeyedBySession ==
    [][ /\ \A c \in Issued :
              c.kind \in {"read", "upsert"}
                 => /\ session' # None
                    /\ c.uid = session'[1].uid
                    /\ c.kind = "upsert"
                          => /\ session = session'
                             /\ c.rec.id = c.uid
                             /\ SameFields(c.rec, form)
        /\ last'.op \in {"upsertOk", "staleUpsertOk"}
              => \E c \in pending \ pending' :
                    /\ \A r \in store' \ store : r.id = c.uid
                    /\ \A r \in store \ store' : r.id = c.uid ]_vars

\* C15 witness: after the Session of u1 was replaced by one of u2, a submit
\* is in flight whose record is keyed u2 while the table holds a row of u1.
C15_Witness ==
    /\ session # None
    /\ session[1].uid = "u2"
    /\ sessObjs = 2
    /\ RowsFor("u1") # {}
    /\ \E c \in CallsOf("upsert") : Live(c) /\ c.uid = "u2" /\ c.rec.id = "u2"

\* C16: the link-sent notice, once shown, survives rejected submits, ignored
\* gestures and edits of the input; it is switched off only by the step in
\* which a valid submit starts its request, and it is off before and after
\* the failure of that request.
C16_NoticeSticky ==
    [][ /\ (showSuccess /\ ~showSuccess') => last'.op = "authSubmitAccepted"
        /\ (last'.op \in {"authSubmitRejected", "authSubmitIgnored", "authType", "authErase"})
              => showSuccess' = showSuccess
        /\ (last'.op = "authSubmitAccepted") => (~showSuccess' /\ aLoading')
        /\ (last'.op = "authResolveErr") => (~showSuccess /\ ~showSuccess') ]_vars

\* C16 witness: the notice of an earlier success is still shown right after
\* a submit that the e-mail check rejected.
C16_Witness ==
    /\ last.op = "authSubmitRejected"
    /\ showSuccess
    /\ emailError
    /\ toast = LinkSentToast
    /\ ~aLoading

\* C17: after a submit that validation rejected, every offending field has
\* its message shown, so every offending field is a rendered one and at
\* least one message is visible.
C17_RejectionVisible ==
    last.op = "submitRejected"
       => /\ fieldErrors \subseteq RenderedFields
          /\ fieldErrors \cap RenderedFields # {}

\* The steps taken by the user or by the host, as opposed to the steps in
\* which a call resolves.
UserSteps == {"sessionArrives", "sessionReplaced", "submitAccepted", "signOutClick"}
ResolveSteps ==
    {"readRow", "readNoRow", "readManyRows", "readFail", "staleRead", "upsertOk",
     "staleUpsertOk", "upsertFail", "staleUpsertFail", "signOutDone"}

\* C18: no call is retried. A step in which a call resolves removes that
\* call and issues none; calls are issued only by steps of the user or the
\* host, one upsert by each accepted submit and by nothing else, one
\* sign-in request by each accepted sign-in submit and by nothing else; and
\* the message of a failure stays until a new submit, a new Session or
\* sign-out.
C18_NoRetry ==
    [][ /\ last'.op \in ResolveSteps
              => /\ Issued = {}
                 /\ nextId' = nextId
                 /\ Cardinality(pending') = Cardinality(pending) - 1
        /\ Issued # {} => last'.op \in UserSteps
        /\ last'.op = "submitAccepted"
              => /\ Cardinality(Issued) = 1
                 /\ \A c \in Issued : c.kind = "upsert"
        /\ (\E c \in Issued : c.kind = "upsert") => last'.op = "submitAccepted"
        /\ authInFlight' > authInFlight
              => (last'.op = "authSubmitAccepted" /\ authInFlight' = authInFlight + 1)
        /\ last'.op \in {"authResolveOk", "authResolveErr"}
              => authInFlight' = authInFlight - 1
        /\ (error # None /\ error' = None)
              => last'.op \in {"sessionArrives", "sessionReplaced", "submitAccepted",
                               "signOutDone"} ]_vars

\* C18 witness: an upsert has just failed, the message is shown, the flow is
\* Failed and no call is in flight.
C18_Witness ==
    /\ last.op = "upsertFail"
    /\ submitState = "Failed"
    /\ error # None
    /\ pending = {}
    /\ ~loading

\* C19: when the last outstanding load resolves with a row, the fields show
\* the stored profile of the user of the current Session.
C19_LastLoadIsCurrentUsers ==
    [][ (last'.op = "readRow" /\ CallsOf("read")' = {})
           => \E r \in RowsFor(session[1].uid) :
                 form' = [f \in Fields |-> OrEmpty(r[f])] ]_vars

\* The loads and submits of the mounted Account instance that are in flight.
LiveWork == {c \in pending : Live(c) /\ c.kind \in {"read", "upsert"}}

\* C20: while Account is mounted its loading flag is set exactly while a
\* load or a submit of it is in flight; the sign-in form's flag is set
\* exactly while its request is in flight.
C20_LoadingIffInFlight ==
    /\ (inst # 0) => (loading <=> LiveWork # {})
    /\ aLoading <=> authInFlight > 0

====
